---------------------------- MODULE Spec2Model ----------------------------
(***************************************************************************)
(* Model of lwneal/scm-gan:                                                *)
(*   - atari.py: MultiEnvironment, a pool of gym environments stepped      *)
(*     through a thread pool (map_fn), with reset_env's 100-step warm-up;  *)
(*   - main.py: compute_causal_graph, the counterfactual-ablation causal   *)
(*     graph over the latent factors of a transition model.                *)
(* Spec is the environment pool, SpecWide one step call of a pool wider    *)
(* than the thread pool, SpecCG one invocation of compute_causal_graph.    *)
(***************************************************************************)
EXTENDS Integers, Sequences, FiniteSets, TLC

VARIABLES
    batch_size,   \* MultiEnvironment.batch_size (constructor argument)
    envs,         \* MultiEnvironment.envs: sequence of environment objects
    pc,           \* where the caller's (main) thread is
    idx,          \* index of the env the main thread's loop is working on
    op,           \* the pool operation in progress: "__init__", "reset", "step"
    actions,      \* the argument of the step call in progress (or last made)
    futures,      \* the tasks executor.map submitted, one per zipped (env, action)
    results,      \* what the last step call returned (<<>> if it returned nothing)
    rounds,       \* number of caller operations made after construction
    dones,        \* number of play steps / warm-up loops that saw done=True
    fails,        \* number of play steps / warm-up loops that raised
    error,        \* the exception the last failed operation raised ("" if none)
    outOfOrder    \* in the current step call a task finished before one
                  \* submitted earlier

poolvars == <<batch_size, envs, pc, idx, op, actions, futures, results,
              rounds, dones, fails, error, outOfOrder>>

\* compute_causal_graph: its parameters, locals and position
VARIABLES
    cg_pc,                  \* where the invocation of compute_causal_graph is
    latent_dim,             \* parameter latent_dim (L)
    transition,             \* parameter transition: which latent dynamics
    cg_actions,             \* parameter actions: per batch row, <<a_0, a_1>>
    z,                      \* z = encoder(states[:, 0])
    onehot_a,               \* local onehot_a
    src_z,                  \* local src_z
    dst_z,                  \* local dst_z
    causal_edge_weights,    \* local causal_edge_weights (numpy array)
    src_factor_idx,         \* loop variable, here 1..latent_dim
    perturbed_src_z,        \* local perturbed_src_z of the last iteration
    counterfactual_outcome, \* local counterfactual_outcome of the last iteration
    norm_max,               \* causal_edge_weights.max() taken for the division
    cg_result               \* what compute_causal_graph returned to main

cgvars == <<cg_pc, latent_dim, transition, cg_actions, z, onehot_a, src_z,
            dst_z, causal_edge_weights, src_factor_idx, perturbed_src_z,
            counterfactual_outcome, norm_max, cg_result>>

vars == <<poolvars, cgvars>>

-----------------------------------------------------------------------------
(* Bounds of the model *)
MaxN == 2            \* pool sizes 0..MaxN
MaxExtra == 1        \* SpecWide: slots beyond the number of worker threads
MaxRounds == 2       \* caller operations (step / reset calls) after construction
MaxDones == 2        \* done=True reports by the environments in one run
MaxFails == 1        \* exceptions raised by the environments in one run
MaxLatent == 2       \* latent dimensions 1..MaxLatent
MaxBatch == 2        \* trajectory batches of 1..MaxBatch rows

(* Program constants *)
max_workers == 4     \* ThreadPoolExecutor(max_workers=4)
WarmupSteps == 100   \* for _ in range(100)
NumActions == 4      \* num_actions = 4

Min(a, b) == IF a < b THEN a ELSE b

\* What the caller of compute_causal_graph holds as the result of the call:
\* nothing while the call has not ended, then the value of the call
\* expression: None for a function that ends without a return statement,
\* an array for one that returns it.
NotReturned == [kind |-> "not returned", value |-> <<>>]
PyNone == [kind |-> "None", value |-> <<>>]
NdArray(w) == [kind |-> "ndarray", value |-> w]

\* compute_causal_graph is not running (the environment pool's specifications)
CGNotInvoked ==
    /\ cg_pc = "idle"
    /\ latent_dim = 0
    /\ transition = "none"
    /\ cg_actions = <<>>
    /\ z = <<>>
    /\ onehot_a = <<>>
    /\ src_z = <<>>
    /\ dst_z = <<>>
    /\ causal_edge_weights = <<>>
    /\ src_factor_idx = 0
    /\ perturbed_src_z = <<>>
    /\ counterfactual_outcome = <<>>
    /\ norm_max = 0
    /\ cg_result = NotReturned

-----------------------------------------------------------------------------
(* The gym environment, as far as the pool can observe it.                 *)
(*   over  : the episode is over (or not started): not ready to be stepped *)
(*   frame : number of step() calls since the last reset()                 *)
(*   moved : some step since the last reset() had an action other than 0   *)

\* gym.make(name): a fresh environment, not yet reset
gym_make(i) == [id |-> i, over |-> TRUE, frame |-> 0, moved |-> FALSE]

\* env.reset()
env_reset(env) == [env EXCEPT !.over = FALSE, !.frame = 0, !.moved = FALSE]

\* the observation the environment currently shows
Observation(env) == [env |-> env.id, frame |-> env.frame]

\* What one env.step(action) can do: run on, report done, or raise.
\* Stepping an environment whose episode is over is undefined in gym: any
\* of the outcomes may follow.
Outcomes == {"run", "done", "raise"}

\* env.step(action) with the given outcome: the new environment and the
\* (state, reward, done, info) tuple it returns
env_step(env, action, outcome) ==
    IF outcome = "raise"
    THEN [env |-> env, raised |-> TRUE, ret |-> <<>>]
    ELSE LET e == [env EXCEPT !.over = (outcome = "done"),
                              !.frame = env.frame + 1,
                              !.moved = env.moved \/ (action # 0)]
         IN [env |-> e, raised |-> FALSE,
             ret |-> [state |-> Observation(e),
                      reward |-> IF outcome = "done" THEN 1 ELSE 0,
                      done |-> (outcome = "done"),
                      info |-> [env |-> env.id, action |-> action]]]

\* The outcomes of the warm-up steps of one reset_env call: step pat.at of
\* the loop has outcome pat.outcome, every other step runs on.
WarmupPatterns ==
    {[at |-> 0, outcome |-> "run"]}
        \cup {[at |-> k, outcome |-> o] : k \in {1, WarmupSteps},
                                          o \in {"done", "raise"}}

PatternOutcome(pat, k) == IF k = pat.at THEN pat.outcome ELSE "run"

\* what a pattern uses of the budgets dones and fails
PatternDones(pat) == IF pat.outcome = "done" THEN 1 ELSE 0
PatternFails(pat) == IF pat.outcome = "raise" THEN 1 ELSE 0

\* One pass of the loop body, env.step(0), as step k of the warm-up; st is
\* the loop's state: the environment, and whether a step has raised.
warmup_step(st, k, pat) ==
    LET r == env_step(st.env, 0, PatternOutcome(pat, k))
    IN [env |-> r.env, raised |-> r.raised,
        done |-> IF r.raised THEN FALSE ELSE r.ret.done]

\* (mutant) passes lo..hi of a loop that leaves at the first done report
RECURSIVE warmup_steps_break(_, _, _, _)
warmup_steps_break(st, lo, hi, pat) ==
    IF st.raised \/ st.done THEN st
    ELSE IF lo = hi THEN warmup_step(st, lo, pat)
    ELSE warmup_steps_break(
            warmup_steps_break(st, lo, (lo + hi) \div 2, pat),
            ((lo + hi) \div 2) + 1, hi, pat)

\* (mutant) the warm-up loop leaves at the first step that reports done
warmup_loop_break(env, k, pat) ==
    LET st == warmup_steps_break(
                [env |-> env, raised |-> FALSE, done |-> FALSE],
                k, WarmupSteps, pat)
    IN [env |-> st.env, raised |-> st.raised]

\* Passes lo..hi of the loop, in order; an exception ends the loop, and what
\* a step returns is dropped.  (The passes are folded by halves, which keeps
\* the evaluation shallow; the order of the steps is that of the loop.)
RECURSIVE warmup_steps(_, _, _, _)
warmup_steps(st, lo, hi, pat) ==
    IF st.raised THEN st
    ELSE IF lo = hi THEN warmup_step(st, lo, pat)
    ELSE warmup_steps(
            warmup_steps(st, lo, (lo + hi) \div 2, pat),
            ((lo + hi) \div 2) + 1, hi, pat)

\* reset_env, the loop:  for _ in range(100): env.step(0)     (from pass k)
warmup_loop(env, k, pat) ==
    LET st == warmup_steps(
                [env |-> env, raised |-> FALSE, done |-> FALSE],
                k, WarmupSteps, pat)
    IN [env |-> st.env, raised |-> st.raised]

\* reset_env after env.reset(): the warm-up loop from its first step.
\* (WarmupOfFresh holds the loop's result for a freshly reset environment,
\* which is what reset_env always runs it on.)
FreshEnv(i) == env_reset(gym_make(i))

WarmupOfFresh ==
    [i \in 1..(max_workers + MaxExtra + MaxN) |->
        [pat \in WarmupPatterns |-> warmup_loop(FreshEnv(i), 1, pat)]]

warmup(env, pat) ==
    IF env.id \in DOMAIN WarmupOfFresh /\ env = FreshEnv(env.id)
    THEN WarmupOfFresh[env.id][pat]
    ELSE warmup_loop(env, 1, pat)

-----------------------------------------------------------------------------
(* The caller's thread: construction and reset *)

AtRest == {"constructed", "reset_returned", "returned", "failed"}

Init ==
    /\ batch_size \in 0..MaxN
    /\ envs = <<>>
    /\ pc = "make"
    /\ idx = 0
    /\ op = "__init__"
    /\ actions = <<>>
    /\ futures = <<>>
    /\ results = <<>>
    /\ rounds = 0
    /\ dones = 0
    /\ fails = 0
    /\ error = ""
    /\ outOfOrder = FALSE
    /\ CGNotInvoked

\* __init__:  self.envs = [gym.make(name) for i in range(batch_size)]
\* one environment per step of the comprehension, in the caller's thread
MakeEnv ==
    /\ pc = "make"
    /\ Len(envs) < batch_size
    /\ envs' = Append(envs, gym_make(Len(envs) + 1))
    /\ UNCHANGED <<batch_size, pc, idx, op, actions, futures, results,
                   rounds, dones, fails, error, outOfOrder>>
    /\ UNCHANGED cgvars

\* __init__:  self.reset()   (after the last gym.make)
InitCallsReset ==
    /\ pc = "make"
    /\ Len(envs) = batch_size
    /\ pc' = "reset_loop"
    /\ idx' = 1
    /\ UNCHANGED <<batch_size, envs, op, actions, futures, results,
                   rounds, dones, fails, error, outOfOrder>>
    /\ UNCHANGED cgvars

\* a caller's MultiEnvironment.reset()
CallReset ==
    /\ pc \in AtRest
    /\ op # "__init__" \/ pc = "constructed"
    /\ rounds < MaxRounds
    /\ rounds' = rounds + 1
    /\ op' = "reset"
    /\ pc' = "reset_loop"
    /\ idx' = 1
    /\ UNCHANGED <<batch_size, envs, actions, futures, results, dones, fails,
                   error, outOfOrder>>
    /\ UNCHANGED cgvars

\* reset:  for env in self.envs: reset_env(env)   -- reset_env: env.reset()
ResetEnvBegin ==
    /\ pc = "reset_loop"
    /\ idx <= Len(envs)
    /\ envs' = [envs EXCEPT ![idx] = env_reset(envs[idx])]
    /\ pc' = "warmup"
    /\ UNCHANGED <<batch_size, idx, op, actions, futures, results,
                   rounds, dones, fails, error, outOfOrder>>
    /\ UNCHANGED cgvars

\* reset_env: the warm-up loop, in the caller's thread
ResetEnvWarmup ==
    /\ pc = "warmup"
    /\ \E pat \in WarmupPatterns : \E r \in {warmup(envs[idx], pat)} :
        /\ dones + PatternDones(pat) <= MaxDones
        /\ fails + PatternFails(pat) <= MaxFails
        /\ dones' = dones + PatternDones(pat)
        /\ fails' = fails + PatternFails(pat)
        /\ envs' = [envs EXCEPT ![idx] = r.env]
        /\ IF r.raised
           THEN pc' = "failed" /\ idx' = idx /\ error' = "EnvError"
           ELSE pc' = "reset_loop" /\ idx' = idx + 1 /\ error' = error
    /\ UNCHANGED <<batch_size, op, actions, futures, results, rounds,
                   outOfOrder>>
    /\ UNCHANGED cgvars

\* reset: the loop is over, reset (and __init__) return
ResetReturn ==
    /\ pc = "reset_loop"
    /\ idx > Len(envs)
    /\ pc' = IF op = "__init__" THEN "constructed" ELSE "reset_returned"
    /\ UNCHANGED <<batch_size, envs, idx, op, actions, futures, results,
                   rounds, dones, fails, error, outOfOrder>>
    /\ UNCHANGED cgvars

-----------------------------------------------------------------------------
(* MultiEnvironment.step and map_fn *)

\* the action sequences a caller passes: n actions, rotated by k
ActionSeq(n, k) == [i \in 1..n |-> (i + k - 1) % NumActions]

\* the rotations the model tries
ActionShifts == {0, 1}

\* the lengths a caller may pass for a pool of n slots
ActionLengths(n) == {m \in {n - 1, n, n + 1} : m >= 0}

\* (mutant) step without its assertion
StepPreconditionDropped(acts) == TRUE

\* step:  assert len(actions) == len(self.envs)
StepPrecondition(acts) == Len(acts) = Len(envs)

\* (mutant) every task is handed the first environment of the pool
SubmitSameEnv(es, acts) ==
    [i \in 1..Min(Len(es), Len(acts)) |->
        [slot |-> 1, action |-> acts[i], status |-> "queued", ret |-> <<>>]]

\* executor.map(fn, self.envs, actions): one task per element of
\* zip(self.envs, actions), all submitted before map returns
Submit(es, acts) ==
    [i \in 1..Min(Len(es), Len(acts)) |->
        [slot |-> i, action |-> acts[i], status |-> "queued", ret |-> <<>>]]

\* the tasks a worker thread is running
Running(fs) ==
    {i \in 1..Len(fs) : fs[i].status \in {"running", "reset_env", "warmup"}}

\* the tasks that have ended
Ended(fs) == {i \in 1..Len(fs) : fs[i].status \in {"finished", "raised"}}

\* (mutant) a worker thread that ran a task is never given another one
WorkerSlotsNeverFreed(fs) == Cardinality(Running(fs) \cup Ended(fs)) < max_workers

\* (mutant) an executor that starts a thread for every task
WorkerPerTask(fs) == TRUE

\* ThreadPoolExecutor(max_workers=4): a queued task starts when fewer than
\* max_workers threads are busy
WorkerAvailable(fs) == Cardinality(Running(fs)) < max_workers

\* step(actions): the assertion, then map_fn submits the tasks
StepCall ==
    /\ pc \in AtRest
    /\ op # "__init__" \/ pc = "constructed"
    /\ rounds < MaxRounds
    /\ rounds' = rounds + 1
    /\ op' = "step"
    /\ \E n \in ActionLengths(Len(envs)), k \in ActionShifts :
        /\ actions' = ActionSeq(n, k)
        /\ IF StepPrecondition(actions')
           THEN /\ futures' = Submit(envs, actions')
                /\ pc' = "map_fn"
                /\ error' = ""
           ELSE /\ futures' = <<>>
                /\ pc' = "failed"
                /\ error' = "AssertionError"
    /\ results' = <<>>
    /\ outOfOrder' = FALSE
    /\ UNCHANGED <<batch_size, envs, idx, dones, fails>>
    /\ UNCHANGED cgvars

\* a worker thread takes the next task from the executor's queue (FIFO)
WorkerStart(i) ==
    /\ pc = "map_fn"
    /\ futures[i].status = "queued"
    /\ \A j \in 1..(i - 1) : futures[j].status # "queued"
    /\ WorkerAvailable(futures)
    /\ futures' = [futures EXCEPT ![i].status = "running"]
    /\ UNCHANGED <<batch_size, envs, pc, idx, op, actions, results,
                   rounds, dones, fails, error, outOfOrder>>
    /\ UNCHANGED cgvars

\* the task's status after env.step(action) returned ret
AfterStep(ret) == IF ret.done THEN "reset_env" ELSE "finished"

\* run_one_step:  state, reward, done, info = env.step(action)
\*                if done: ...   (else: return state, reward, done, info)
RunOneStep(i) ==
    /\ pc = "map_fn"
    /\ futures[i].status = "running"
    /\ \E outcome \in Outcomes :
        LET r == env_step(envs[futures[i].slot], futures[i].action, outcome) IN
        /\ outcome = "done" => dones < MaxDones
        /\ outcome = "raise" => fails < MaxFails
        /\ dones' = IF outcome = "done" THEN dones + 1 ELSE dones
        /\ fails' = IF outcome = "raise" THEN fails + 1 ELSE fails
        /\ envs' = [envs EXCEPT ![futures[i].slot] = r.env]
        /\ IF r.raised
           THEN futures' = [futures EXCEPT ![i].status = "raised"]
           ELSE futures' = [futures EXCEPT ![i].status = AfterStep(r.ret),
                                           ![i].ret = r.ret]
        /\ outOfOrder' = (outOfOrder \/
                           (futures'[i].status \in {"finished", "raised"}
                            /\ \E j \in 1..(i - 1) : j \notin Ended(futures)))
    /\ UNCHANGED <<batch_size, pc, idx, op, actions, results, rounds, error>>
    /\ UNCHANGED cgvars

\* run_one_step, done:  reset_env(env)  -- reset_env: env.reset()
TaskResetEnv(i) ==
    /\ pc = "map_fn"
    /\ futures[i].status = "reset_env"
    /\ envs' = [envs EXCEPT ![futures[i].slot] = env_reset(envs[futures[i].slot])]
    /\ futures' = [futures EXCEPT ![i].status = "warmup"]
    /\ UNCHANGED <<batch_size, pc, idx, op, actions, results,
                   rounds, dones, fails, error, outOfOrder>>
    /\ UNCHANGED cgvars

\* run_one_step, done: reset_env's warm-up loop in the worker thread, then
\*                     return state, reward, done, info
TaskWarmup(i) ==
    /\ pc = "map_fn"
    /\ futures[i].status = "warmup"
    /\ \E pat \in WarmupPatterns :
       \E r \in {warmup(envs[futures[i].slot], pat)} :
        /\ dones + PatternDones(pat) <= MaxDones
        /\ fails + PatternFails(pat) <= MaxFails
        /\ dones' = dones + PatternDones(pat)
        /\ fails' = fails + PatternFails(pat)
        /\ envs' = [envs EXCEPT ![futures[i].slot] = r.env]
        /\ futures' = [futures EXCEPT ![i].status =
                            IF r.raised THEN "raised" ELSE "finished"]
    /\ outOfOrder' = (outOfOrder \/ \E j \in 1..(i - 1) : j \notin Ended(futures))
    /\ UNCHANGED <<batch_size, pc, idx, op, actions, results, rounds, error>>
    /\ UNCHANGED cgvars

\* (mutant) the results in reverse order of submission
map_fn_result_reversed(fs) ==
    IF \E i \in 1..Len(fs) : fs[i].status = "raised"
    THEN [raised |-> TRUE, list |-> <<>>]
    ELSE [raised |-> FALSE, list |-> [i \in 1..Len(fs) |-> fs[Len(fs) + 1 - i].ret]]

\* (mutant) the results of the tasks that did not raise: a partial batch
map_fn_result_partial(fs) ==
    LET ok == SelectSeq(fs, LAMBDA f : f.status # "raised")
    IN [raised |-> FALSE, list |-> [i \in 1..Len(ok) |-> ok[i].ret]]

\* map_fn:  return [i for i in result_iterator]
\* the results in the order of submission; the first task that raised
\* re-raises its exception here
map_fn_result(fs) ==
    IF \E i \in 1..Len(fs) : fs[i].status = "raised"
    THEN [raised |-> TRUE, list |-> <<>>]
    ELSE [raised |-> FALSE, list |-> [i \in 1..Len(fs) |-> fs[i].ret]]

\* step:  states, rewards, dones, infos = zip(*results)
\* unpacking zip(*[]) into four names raises ValueError
Unzip(list) ==
    IF Len(list) = 0
    THEN [raised |-> TRUE, value |-> <<>>]
    ELSE [raised |-> FALSE,
          value |-> [states |-> [i \in 1..Len(list) |-> list[i].state],
                     rewards |-> [i \in 1..Len(list) |-> list[i].reward],
                     dones |-> [i \in 1..Len(list) |-> list[i].done],
                     infos |-> [i \in 1..Len(list) |-> list[i].info]]]

\* map_fn leaves the with block (executor.shutdown(wait=True)) when every
\* task has ended, collects the results, and step unzips and returns them;
\* the executor and its futures are gone when step is left
MapFnReturn ==
    /\ pc = "map_fn"
    /\ Ended(futures) = 1..Len(futures)
    /\ LET m == map_fn_result(futures)
           u == Unzip(m.list)
       IN IF m.raised
          THEN pc' = "failed" /\ error' = "EnvError" /\ results' = <<>>
          ELSE IF u.raised
               THEN pc' = "failed" /\ error' = "ValueError" /\ results' = <<>>
               ELSE pc' = "returned" /\ error' = "" /\ results' = u.value
    /\ futures' = <<>>
    /\ UNCHANGED <<batch_size, envs, idx, op, actions,
                   rounds, dones, fails, outOfOrder>>
    /\ UNCHANGED cgvars

Next ==
    \/ MakeEnv
    \/ InitCallsReset
    \/ CallReset
    \/ ResetEnvBegin
    \/ ResetEnvWarmup
    \/ ResetReturn
    \/ StepCall
    \/ \E i \in 1..Len(futures) : WorkerStart(i)
    \/ \E i \in 1..Len(futures) : RunOneStep(i)
    \/ \E i \in 1..Len(futures) : TaskResetEnv(i)
    \/ \E i \in 1..Len(futures) : TaskWarmup(i)
    \/ MapFnReturn

Spec == Init /\ [][Next]_vars

-----------------------------------------------------------------------------
(* A pool wider than the thread pool, from the point where its caller has  *)
(* one operation left: constructed, and reset since, with no done report.  *)

\* an environment as reset_env leaves it when no warm-up step reports done
ReadyEnv(i) == warmup(FreshEnv(i), [at |-> 0, outcome |-> "run"]).env

InitWide ==
    /\ batch_size \in (max_workers + 1)..(max_workers + MaxExtra)
    /\ envs = [i \in 1..batch_size |-> ReadyEnv(i)]
    /\ pc = "reset_returned"
    /\ idx = batch_size + 1
    /\ op = "reset"
    /\ actions = <<>>
    /\ futures = <<>>
    /\ results = <<>>
    /\ rounds = MaxRounds - 1
    /\ dones = 0
    /\ fails = 0
    /\ error = ""
    /\ outOfOrder = FALSE
    /\ CGNotInvoked

NextWide ==
    \/ StepCall
    \/ \E i \in 1..Len(futures) : WorkerStart(i)
    \/ \E i \in 1..Len(futures) : RunOneStep(i)
    \/ \E i \in 1..Len(futures) : TaskResetEnv(i)
    \/ \E i \in 1..Len(futures) : TaskWarmup(i)
    \/ MapFnReturn

SpecWide == InitWide /\ [][NextWide]_vars

-----------------------------------------------------------------------------
(* One step call on a ready pool of any size, with the threads scheduled:  *)
(* a worker thread that can take a task or go on with its task does so,    *)
(* and the calling thread leaves the with block once every task has ended. *)

\* from the empty pool to one environment more than there are workers
InitAnySize ==
    /\ batch_size \in 0..(max_workers + 1)
    /\ envs = [i \in 1..batch_size |-> ReadyEnv(i)]
    /\ pc = "reset_returned"
    /\ idx = batch_size + 1
    /\ op = "reset"
    /\ actions = <<>>
    /\ futures = <<>>
    /\ results = <<>>
    /\ rounds = MaxRounds - 1
    /\ dones = 0
    /\ fails = 0
    /\ error = ""
    /\ outOfOrder = FALSE
    /\ CGNotInvoked

\* a step of a thread inside map_fn: a worker, or the caller collecting
ThreadStep ==
    \/ \E i \in 1..Len(futures) : WorkerStart(i)
    \/ \E i \in 1..Len(futures) : RunOneStep(i)
    \/ \E i \in 1..Len(futures) : TaskResetEnv(i)
    \/ \E i \in 1..Len(futures) : TaskWarmup(i)
    \/ MapFnReturn

NextStepLive ==
    \/ StepCall
    \/ ThreadStep

SpecStepLive == InitAnySize /\ [][NextStepLive]_vars /\ WF_vars(ThreadStep)

-----------------------------------------------------------------------------
(* Properties of the environment pool *)

\* the pool-level operation that last ended returned normally
Returned == pc \in {"constructed", "reset_returned", "returned"}

\* C1: after construction, after reset() and after every step that returns,
\* no slot is left in an episode-over state.
C1_PoolInvariant ==
    Returned => \A i \in 1..Len(envs) : ~envs[i].over

\* C2: for every slot that step reports done, the observation step returns
\* for it is the post-reset-and-warm-up observation of that slot, not the
\* terminal one.
C2_DoneObservationIsPostReset ==
    pc = "returned" =>
        \A i \in 1..Len(envs) :
            results.dones[i] => results.states[i] = Observation(envs[i])

\* position i of the four returned sequences is the result of stepping
\* slot i with actions[i]
Aligned ==
    /\ Len(results.states) = Len(envs)
    /\ Len(results.rewards) = Len(envs)
    /\ Len(results.dones) = Len(envs)
    /\ Len(results.infos) = Len(envs)
    /\ \A i \in 1..Len(envs) :
        /\ results.infos[i] = [env |-> i, action |-> actions[i]]
        /\ results.states[i].env = i
        /\ results.rewards[i] = (IF results.dones[i] THEN 1 ELSE 0)
        /\ ~results.dones[i] => results.states[i] = Observation(envs[i])

\* a step call with as many actions as slots has ended, and no environment
\* call of it raised
StepEnded ==
    /\ op = "step"
    /\ pc \in {"returned", "failed"}
    /\ Len(actions) = Len(envs)
    /\ error # "EnvError"

\* C3 (as stated): for every pool size N and N actions, step returns four
\* sequences of length N, position i being slot i stepped with actions[i].
C3_StepReturnsAligned ==
    StepEnded => (pc = "returned" /\ Aligned)

\* C3 (amended): the same for every pool size N >= 1; for N = 0 step raises
\* ValueError instead of returning four empty sequences.
C3_StepReturnsAlignedNonEmpty ==
    StepEnded =>
        IF Len(envs) >= 1
        THEN pc = "returned" /\ Aligned
        ELSE pc = "failed" /\ error = "ValueError"

C3_Witness ==
    /\ StepEnded
    /\ pc = "returned"
    /\ Len(envs) >= 2
    /\ outOfOrder
    /\ actions[1] # actions[2]

\* C4: a step call whose action sequence differs in length from the pool
\* fails at once, and no slot is stepped or reset: envs is unchanged and no
\* task is submitted.
C4_LengthMismatchFailsFast ==
    [][(pc \in AtRest /\ op' = "step" /\ rounds' = rounds + 1
            /\ Len(actions') # Len(envs))
        => (pc' = "failed" /\ error' = "AssertionError"
            /\ envs' = envs /\ futures' = <<>>)]_vars

C4_Witness ==
    /\ op = "step"
    /\ pc = "failed"
    /\ error = "AssertionError"
    /\ Len(envs) >= 1
    /\ Len(actions) = Len(envs) - 1

\* the slots in reset_env, between env.reset() and the end of the warm-up
SlotsInReset ==
    {i \in 1..Len(envs) :
        \/ pc = "warmup" /\ idx = i
        \/ \E t \in 1..Len(futures) :
              futures[t].slot = i /\ futures[t].status = "warmup"}

\* C5: at no point are two slots being reset at the same time, the resets
\* that step performs for done slots included.
C5_ResetsSequential == Cardinality(SlotsInReset) <= 1

\* C6: when the environment step of a slot fails during step, step fails to
\* its caller and returns no batch; the failed task is not run again and
\* its environment is not touched (no reset, no retry) by that call.
C6_FailingSlotAborts ==
    [][pc = "map_fn" =>
        /\ \A t \in 1..Len(futures) :
              futures[t].status = "raised" =>
                  /\ envs'[futures[t].slot] = envs[futures[t].slot]
                  /\ pc' = "map_fn" => futures'[t] = futures[t]
        /\ ((\E t \in 1..Len(futures) : futures[t].status = "raised")
                /\ pc' # "map_fn")
            => (pc' = "failed" /\ error' = "EnvError" /\ results' = <<>>)]_vars

C6_Witness ==
    /\ op = "step"
    /\ pc = "failed"
    /\ error = "EnvError"
    /\ Len(envs) >= 2
    /\ \E i \in 1..Len(envs) : envs[i].frame > WarmupSteps

\* an environment on which exactly WarmupSteps steps, all with action 0,
\* were made since its last reset()
Warmed(env) == env.frame = WarmupSteps /\ ~env.moved

\* C8: every reset of a slot is one env.reset() followed by exactly 100
\* steps with action 0, whatever those steps report: in the caller's thread
\* (construction, reset()) and in a worker thread (after a done report).
C8_ResetThenHundredNoops ==
    [][/\ (pc = "reset_loop" /\ pc' = "warmup") => envs'[idx] = FreshEnv(idx)
       /\ (pc = "warmup" /\ pc' = "reset_loop") => Warmed(envs'[idx])
       /\ \A t \in 1..Len(futures) :
            (pc = "map_fn" /\ pc' = "map_fn") =>
              /\ (futures[t].status = "reset_env"
                    /\ futures'[t].status = "warmup")
                 => envs'[futures[t].slot] = FreshEnv(futures[t].slot)
              /\ (futures[t].status = "warmup"
                    /\ futures'[t].status = "finished")
                 => Warmed(envs'[futures[t].slot])]_vars

C8_Witness ==
    /\ pc = "map_fn"
    /\ \E t \in 1..Len(futures) :
        /\ futures[t].status = "finished"
        /\ futures[t].ret.done
        /\ envs[futures[t].slot].over
        /\ Warmed(envs[futures[t].slot])

\* C9: for every pool size, at most 4 slots are being stepped (or reset as
\* part of their step) at the same time.
C9_AtMostFourWorkers == Cardinality(Running(futures)) <= 4

C9_Witness ==
    /\ Len(envs) > 4
    /\ Cardinality(Running(futures)) = 4
    /\ \E t \in 1..Len(futures) : futures[t].status = "queued"

-----------------------------------------------------------------------------
(* compute_causal_graph (main.py).  Tensors are sequences of rows; reals    *)
(* are integers, and the entries of causal_edge_weights are fractions so    *)
(* that the division by the maximum, and 0/0, is what numpy computes.       *)

\* the latent values the encoder may produce
ZVals == {0, 2}

\* the latent dynamics the model is run with (the trained network is not
\* part of the function): transition(z, onehot_a), row by row
Transitions == {"identity", "zero", "negate", "scale", "mix"}

RECURSIVE SumTo(_, _)
SumTo(f, n) == IF n = 0 THEN 0 ELSE f[n] + SumTo(f, n - 1)

\* the action index a one-hot row encodes
ActionIndex(oh) == SumTo([k \in 1..Len(oh) |-> (k - 1) * oh[k]], Len(oh))

TransitionRow(kind, zr, oh) ==
    CASE kind = "identity" -> zr
      [] kind = "zero"     -> [j \in 1..Len(zr) |-> 0]
      [] kind = "negate"   -> [j \in 1..Len(zr) |-> 0 - zr[j]]
      [] kind = "scale"    -> [j \in 1..Len(zr) |-> (1 + ActionIndex(oh)) * zr[j]]
      [] kind = "mix"      -> [j \in 1..Len(zr) |->
                                  SumTo(zr, Len(zr)) + ActionIndex(oh)]

ApplyTransition(kind, zb, ohb) ==
    [b \in 1..Len(zb) |-> TransitionRow(kind, zb[b], ohb[b])]

\* torch.eye(num_actions)[actions[:, t]]   (t = 0, 1)
Onehot(acts, t) ==
    [b \in 1..Len(acts) |->
        [k \in 1..NumActions |-> IF k = acts[b][t + 1] + 1 THEN 1 ELSE 0]]

\* (mutant) the encoding of the first action kept for the second step
OnehotOfFirstAction(acts) == Onehot(acts, 0)

\* line 279:  onehot_a = torch.eye(num_actions)[actions[:, 1]]
OnehotForDst(acts) == Onehot(acts, 1)

\* t[:, src_factor_idx] = 0  on a tensor t
Ablate(src, i) ==
    [b \in 1..Len(src) |->
        [j \in 1..Len(src[b]) |-> IF j = i THEN 0 ELSE src[b][j]]]

\* (mutant) perturbed_src_z = src_z: the same tensor under two names, so the
\* column written to 0 is written in src_z as well
AblateAlias(src, i) ==
    [src_z |-> Ablate(src, i), perturbed_src_z |-> Ablate(src, i)]

\* perturbed_src_z = src_z.clone(); perturbed_src_z[:, src_factor_idx] = 0
\* clone() makes a new tensor: the write goes to the copy only
AblateClone(src, i) ==
    [src_z |-> src, perturbed_src_z |-> Ablate(src, i)]

\* (mutant) the difference without the square
CfDifferenceNoSquare(gt, cf) ==
    [b \in 1..Len(gt) |-> [j \in 1..Len(gt[b]) |-> gt[b][j] - cf[b][j]]]

\* cf_difference = (ground_truth_outcome - counterfactual_outcome)**2
CfDifference(gt, cf) ==
    [b \in 1..Len(gt) |->
        [j \in 1..Len(gt[b]) |-> (gt[b][j] - cf[b][j]) * (gt[b][j] - cf[b][j])]]

\* cf_difference[:, dst_factor_idx].sum()
ColumnSum(m, j) == SumTo([b \in 1..Len(m) |-> m[b][j]], Len(m))

\* an entry of the numpy array: num / den, or nan
Frac(n) == [nan |-> FALSE, num |-> n, den |-> 1]
NaN == [nan |-> TRUE, num |-> 0, den |-> 0]

\* np.zeros(shape=(latent_dim, latent_dim))
Zeros(n) == [i \in 1..n |-> [j \in 1..n |-> Frac(0)]]

\* causal_edge_weights.max()  (of the integer-valued entries)
RECURSIVE MaxOf(_)
MaxOf(S) ==
    LET x == CHOOSE y \in S : TRUE
    IN IF S = {x} THEN x
       ELSE LET m == MaxOf(S \ {x}) IN IF x > m THEN x ELSE m

MatrixMax(w) == MaxOf({w[i][j].num : i \in 1..Len(w), j \in 1..Len(w)})

\* numpy's float division x / m: 0/0 is nan (with a RuntimeWarning)
Divide(x, m) ==
    IF m = 0 /\ x.num = 0 THEN NaN ELSE [nan |-> FALSE, num |-> x.num, den |-> m]

\* causal_edge_weights /= causal_edge_weights.max()
Normalize(w) ==
    [i \in 1..Len(w) |-> [j \in 1..Len(w) |-> Divide(w[i][j], MatrixMax(w))]]

\* the inputs of one invocation
LatentBatches(B, L) == [1..B -> [1..L -> ZVals]]
ActionBatches(B) ==
    {[b \in 1..B |-> <<(a0 + b - 1) % NumActions, (a1 + b - 1) % NumActions>>] :
        a0 \in ActionShifts, a1 \in ActionShifts}

\* main calls compute_causal_graph(encoder, transition, states, actions, ...)
InitCG ==
    /\ batch_size = 0 /\ envs = <<>> /\ pc = "none" /\ idx = 0 /\ op = "none"
    /\ actions = <<>> /\ futures = <<>> /\ results = <<>> /\ rounds = 0
    /\ dones = 0 /\ fails = 0 /\ error = "" /\ outOfOrder = FALSE
    /\ cg_pc = "encode"
    /\ latent_dim \in 1..MaxLatent
    /\ transition \in Transitions
    /\ \E B \in 1..MaxBatch :
        /\ z \in LatentBatches(B, latent_dim)
        /\ cg_actions \in ActionBatches(B)
    /\ onehot_a = <<>>
    /\ src_z = <<>>
    /\ dst_z = <<>>
    /\ causal_edge_weights = <<>>
    /\ src_factor_idx = 0
    /\ perturbed_src_z = <<>>
    /\ counterfactual_outcome = <<>>
    /\ norm_max = 0
    /\ cg_result = NotReturned

\* lines 274-278:  z = encoder(states[:, 0])
\*                 onehot_a = eye[actions[:, 0]];  src_z = transition(z, onehot_a)
CGSrc ==
    /\ cg_pc = "encode"
    /\ onehot_a' = Onehot(cg_actions, 0)
    /\ src_z' = ApplyTransition(transition, z, onehot_a')
    /\ cg_pc' = "dst"
    /\ UNCHANGED <<latent_dim, transition, cg_actions, z, dst_z,
                   causal_edge_weights, src_factor_idx, perturbed_src_z,
                   counterfactual_outcome, norm_max, cg_result>>
    /\ UNCHANGED poolvars

\* lines 279-283:  onehot_a = eye[actions[:, 1]];  dst_z = transition(src_z, onehot_a)
\*                 causal_edge_weights = np.zeros(...)
CGDst ==
    /\ cg_pc = "dst"
    /\ onehot_a' = OnehotForDst(cg_actions)
    /\ dst_z' = ApplyTransition(transition, src_z, onehot_a')
    /\ causal_edge_weights' = Zeros(latent_dim)
    /\ src_factor_idx' = 1
    /\ cg_pc' = "loop"
    /\ UNCHANGED <<latent_dim, transition, cg_actions, z, src_z,
                   perturbed_src_z, counterfactual_outcome, norm_max, cg_result>>
    /\ UNCHANGED poolvars

\* lines 288-306: one iteration of  for src_factor_idx in range(latent_dim)
CGAblate ==
    /\ cg_pc = "loop"
    /\ src_factor_idx <= latent_dim
    /\ LET t == AblateClone(src_z, src_factor_idx)
       IN /\ perturbed_src_z' = t.perturbed_src_z
          /\ src_z' = t.src_z
    /\ counterfactual_outcome' =
            ApplyTransition(transition, perturbed_src_z', onehot_a)
    /\ LET cf_difference == CfDifference(dst_z, counterfactual_outcome')
       IN causal_edge_weights' =
            [causal_edge_weights EXCEPT ![src_factor_idx] =
                [j \in 1..latent_dim |-> Frac(ColumnSum(cf_difference, j))]]
    /\ src_factor_idx' = src_factor_idx + 1
    /\ UNCHANGED <<cg_pc, latent_dim, transition, cg_actions, z, onehot_a,
                   dst_z, norm_max, cg_result>>
    /\ UNCHANGED poolvars

\* lines 309-310:  causal_edge_weights /= causal_edge_weights.max()
CGNormalize ==
    /\ cg_pc = "loop"
    /\ src_factor_idx > latent_dim
    /\ norm_max' = MatrixMax(causal_edge_weights)
    /\ causal_edge_weights' = Normalize(causal_edge_weights)
    /\ cg_pc' = "render"
    /\ UNCHANGED <<latent_dim, transition, cg_actions, z, onehot_a, src_z,
                   dst_z, src_factor_idx, perturbed_src_z,
                   counterfactual_outcome, cg_result>>
    /\ UNCHANGED poolvars

\* lines 312-319: the matrix is printed and rendered, then
\*                import pdb; pdb.set_trace()  stops in the debugger
CGRender ==
    /\ cg_pc = "render"
    /\ cg_pc' = "pdb"
    /\ UNCHANGED <<latent_dim, transition, cg_actions, z, onehot_a, src_z,
                   dst_z, causal_edge_weights, src_factor_idx, perturbed_src_z,
                   counterfactual_outcome, norm_max, cg_result>>
    /\ UNCHANGED poolvars

\* the operator at the terminal tells the debugger to continue
CGDebuggerContinue ==
    /\ cg_pc = "pdb"
    /\ cg_pc' = "show"
    /\ UNCHANGED <<latent_dim, transition, cg_actions, z, onehot_a, src_z,
                   dst_z, causal_edge_weights, src_factor_idx, perturbed_src_z,
                   counterfactual_outcome, norm_max, cg_result>>
    /\ UNCHANGED poolvars

\* line 320: imutil.show(graph_img, ...); the function ends without a
\* return statement: its caller gets None
CGReturn ==
    /\ cg_pc = "show"
    /\ cg_pc' = "done"
    /\ cg_result' = PyNone
    /\ UNCHANGED <<latent_dim, transition, cg_actions, z, onehot_a, src_z,
                   dst_z, causal_edge_weights, src_factor_idx, perturbed_src_z,
                   counterfactual_outcome, norm_max>>
    /\ UNCHANGED poolvars

NextCG ==
    \/ CGSrc
    \/ CGDst
    \/ CGAblate
    \/ CGNormalize
    \/ CGRender
    \/ CGDebuggerContinue
    \/ CGReturn

SpecCG == InitCG /\ [][NextCG]_vars

-----------------------------------------------------------------------------
(* Properties of compute_causal_graph *)

\* the division has been made
Normalized == cg_pc \in {"render", "pdb", "show", "done"}

Entries == {causal_edge_weights[i][j] : i \in 1..latent_dim, j \in 1..latent_dim}

IsZero(x) == ~x.nan /\ x.num = 0 /\ x.den > 0
IsOne(x) == ~x.nan /\ x.den > 0 /\ x.num = x.den
InUnitInterval(x) == ~x.nan /\ x.den > 0 /\ 0 <= x.num /\ x.num <= x.den

\* C7: when some raw edge weight is non-zero, the normalized matrix has
\* maximum exactly 1 and every entry in [0, 1]; when every raw edge weight
\* is zero, the division is skipped and the result is the all-zero matrix,
\* without any not-a-number entry.
C7_NormalizationDefined ==
    Normalized =>
        IF norm_max # 0
        THEN /\ \E x \in Entries : IsOne(x)
             /\ \A x \in Entries : InUnitInterval(x)
        ELSE \A x \in Entries : IsZero(x)

\* C10: every counterfactual outcome is computed with the action encoding
\* of the factual outcome dst_z, onehot(actions[:, 1]), and never with
\* onehot(actions[:, 0]).
C10_CounterfactualUsesSecondAction ==
    (cg_pc = "loop" /\ src_factor_idx > 1) =>
        /\ onehot_a = Onehot(cg_actions, 1)
        /\ dst_z = ApplyTransition(transition, src_z, Onehot(cg_actions, 1))
        /\ counterfactual_outcome =
              ApplyTransition(transition, perturbed_src_z, Onehot(cg_actions, 1))

C10_Witness ==
    /\ cg_pc = "loop"
    /\ src_factor_idx > latent_dim
    /\ latent_dim >= 2
    /\ Len(z) >= 2
    /\ Onehot(cg_actions, 0) # Onehot(cg_actions, 1)
    /\ counterfactual_outcome #
          ApplyTransition(transition, perturbed_src_z, Onehot(cg_actions, 0))

\* the sum over the batch of src_z[:, i]^2
SumOfSquares(m, i) == SumTo([b \in 1..Len(m) |-> m[b][i] * m[b][i]], Len(m))

\* C11: with the identity transition the matrix before normalization is
\* diagonal: row i, once filled, has the sum over the batch of src_z[:, i]^2
\* at column i and 0 at every other column.
C11_IdentityGivesDiagonal ==
    (transition = "identity" /\ cg_pc = "loop") =>
        \A i \in 1..(src_factor_idx - 1) : \A j \in 1..latent_dim :
            causal_edge_weights[i][j] =
                Frac(IF i = j THEN SumOfSquares(src_z, i) ELSE 0)

C11_Witness ==
    /\ transition = "identity"
    /\ cg_pc = "loop"
    /\ src_factor_idx > latent_dim
    /\ latent_dim >= 2
    /\ Len(src_z) >= 2
    /\ \A i \in 1..latent_dim : causal_edge_weights[i][i].num > 0
    /\ causal_edge_weights[1][1] # causal_edge_weights[2][2]

\* C12: the result an invocation hands back to its caller is the normalized
\* L x L edge-weight matrix it computed.
C12_ReturnsNormalizedMatrix ==
    cg_pc = "done" => cg_result = NdArray(causal_edge_weights)

\* C13: every step call, once past its precondition and inside map_fn,
\* eventually returns or fails, for every pool size including sizes larger
\* than the worker pool: no task is left unscheduled.
C13_StepEventuallyEnds ==
    (pc = "map_fn") ~> (pc \in {"returned", "failed"})

C13_Witness ==
    /\ op = "step"
    /\ pc = "returned"
    /\ Len(envs) > max_workers
    /\ Len(results.states) = Len(envs)
    /\ \E i \in 1..Len(envs) : results.dones[i]

\* a step compute_causal_graph takes by itself, with no one at the terminal
ProgramStep ==
    \/ CGSrc
    \/ CGDst
    \/ CGAblate
    \/ CGNormalize
    \/ CGRender
    \/ CGReturn

\* C14: an invocation runs to completion on its own: until it has ended it
\* can always take a next step without any external event or operator input.
C14_RunsToCompletionUnaided ==
    cg_pc \notin {"idle", "done"} => ENABLED ProgramStep

\* src_z and dst_z as lines 278 and 280 computed them, before the loop
LoopEntrySrc == ApplyTransition(transition, z, Onehot(cg_actions, 0))
LoopEntryDst == ApplyTransition(transition, LoopEntrySrc, OnehotForDst(cg_actions))

\* C15: the ablation is applied to a fresh copy: after iteration i the
\* perturbed batch equals src_z in every column except column i, which is 0
\* in every batch row, and src_z and dst_z are what they were when the loop
\* was entered, through all L iterations.
C15_AblationOnFreshCopy ==
    (cg_pc = "loop") =>
        /\ src_z = LoopEntrySrc
        /\ dst_z = LoopEntryDst
        /\ src_factor_idx > 1 =>
            \A b \in 1..Len(src_z) : \A j \in 1..latent_dim :
                perturbed_src_z[b][j] =
                    IF j = src_factor_idx - 1 THEN 0 ELSE src_z[b][j]

C15_Witness ==
    /\ cg_pc = "loop"
    /\ latent_dim >= 2
    /\ src_factor_idx > latent_dim
    /\ \E b \in 1..Len(src_z) :
        /\ src_z[b][1] # 0
        /\ src_z[b][latent_dim] # 0
        /\ perturbed_src_z[b][1] = src_z[b][1]
        /\ perturbed_src_z[b][latent_dim] = 0

\* the worker tasks that are operating on slot i (stepping, resetting or
\* warming it up)
TasksOn(i) == {t \in Running(futures) : futures[t].slot = i}

\* the threads operating on slot i: the calling thread while it resets and
\* warms up the slot, and the worker threads whose task is on the slot
ThreadsOn(i) ==
    (IF pc = "warmup" /\ idx = i THEN 1 ELSE 0) + Cardinality(TasksOn(i))

\* C16: every slot is operated on by at most one thread at any time: within
\* one macro-step each slot has exactly one worker task, and outside map_fn
\* (before a step is called and after it has returned or failed) no worker
\* task is left that has not ended.
C16_OneThreadPerSlot ==
    /\ \A i \in 1..Len(envs) : ThreadsOn(i) <= 1
    /\ pc = "map_fn" =>
        \A i \in 1..Len(envs) :
            Cardinality({t \in 1..Len(futures) : futures[t].slot = i}) = 1
    /\ pc # "map_fn" => Ended(futures) = 1..Len(futures)

C16_Witness ==
    /\ pc = "map_fn"
    /\ rounds >= 2
    /\ Len(envs) >= 2
    /\ \E s, t \in Running(futures) :
        /\ s # t
        /\ futures[s].slot # futures[t].slot
        /\ futures[s].status = "warmup"
        /\ futures[t].status = "running"

=============================================================================
